---- MODULE Spec2Model ----
(***************************************************************************)
(* Request orchestration of the GenzAI Pro single-page client              *)
(* (src/frontend/lib/api.ts, component Home): the mount-time health probe, *)
(* the chat, image and speech handlers, and the React state they share.    *)
(*                                                                         *)
(* Handlers are modelled as callable operations: an invocation reads the   *)
(* state of the latest render, runs synchronously up to its first await,   *)
(* and each await is a separate step taken when the network settles it.    *)
(*                                                                         *)
(* Text is a sequence of tokens: a draft is a sequence of characters, a    *)
(* fixed string of the source is a one-token sequence, so that trim() and  *)
(* template concatenation are computed, not assumed.                       *)
(***************************************************************************)
EXTENDS Naturals, Sequences, FiniteSets, TLC

(* ------------------------------ bounds -------------------------------- *)
MaxDraftLen == 1
MaxCalls == 2

(* ------------------------------- text --------------------------------- *)
Chars == {" ", "a"}
Undefined == <<"undefined">>

Drafts == UNION {[1..n -> Chars] : n \in 0..MaxDraftLen}

IsWhitespace(ch) == ch = " "

RECURSIVE TrimStart(_)
TrimStart(s) ==
  IF s = <<>> THEN <<>>
  ELSE IF IsWhitespace(Head(s)) THEN TrimStart(Tail(s)) ELSE s

RECURSIVE TrimEnd(_)
TrimEnd(s) ==
  IF s = <<>> THEN <<>>
  ELSE IF IsWhitespace(s[Len(s)]) THEN TrimEnd(SubSeq(s, 1, Len(s) - 1)) ELSE s

Trim(s) == TrimEnd(TrimStart(s))

(* JavaScript truthiness of a string-or-undefined value *)
Truthy(v) == v # Undefined /\ v # <<>>

(* ------------------------ fixed strings of the source ------------------ *)
DefaultHost == <<"https://genz-ai-backend4.onrender.com">>
EnvHost == <<"https://backend.example">>
ChatApology == <<"I apologize, but I encountered an error. Please check your internet connection and try again. If the problem persists, the AI services might be temporarily unavailable.">>
ImageApology == <<"Image generation failed. Please try again with a different prompt.">>
ImageCaption == <<"Here is your generated image:">>
ImagePrefix == <<"Generate image: ">>
ImageSize == <<"1024x1024">>
VoiceId == <<"Rachel">>
Healthy == <<"healthy">>

(* ------------------------------ messages ------------------------------ *)
Message(role, content, source, imageUrl) ==
  [role |-> role, content |-> content, source |-> source, imageUrl |-> imageUrl]

UserMessage(text) == Message("user", text, Undefined, Undefined)

ChatErrorMessage == Message("assistant", ChatApology, Undefined, Undefined)

ImageErrorMessage == Message("assistant", ImageApology, Undefined, Undefined)

(* setMessages([...messages, m]): the log captured by the closure *)
AppendMessage_stale(prev, closure, m) == Append(closure, m)

(* the entry put right after the user entry of its own call *)
AppendMessage_paired(prev, closure, m) ==
  IF Len(prev) <= Len(closure) + 1 THEN Append(prev, m)
  ELSE SubSeq(prev, 1, Len(closure) + 1) \o <<m>> \o
       SubSeq(prev, Len(closure) + 2, Len(prev))

(* an entry dropped when the log has grown since the call's own user entry *)
AppendMessage_lossy(prev, closure, m) ==
  IF Len(prev) > Len(closure) + 1 THEN prev ELSE Append(prev, m)

(* setMessages(prev => [...prev, m]): a functional update appends to the  *)
(* log of the moment it is applied, not to the log the handler's closure  *)
(* captured when it was invoked                                           *)
AppendMessage(prev, closure, m) == Append(prev, m)

(* ------------------------------ network ------------------------------- *)
(* A response body: "broken" cannot be read at all, "text" is readable but *)
(* is not JSON, "null" is the JSON value null, "object" is a JSON object   *)
(* whose absent fields are Undefined.                                      *)
Body(kind, status, answer, source, success, image_url, error) ==
  [kind |-> kind, status |-> status, answer |-> answer, source |-> source,
   success |-> success, image_url |-> image_url, error |-> error]

PlainBody(kind) ==
  Body(kind, Undefined, Undefined, Undefined, "undefined", Undefined, Undefined)

NoBody == PlainBody("none")

(* The outcome of a fetch: it rejects, or resolves to a response. *)
Rejected == [kind |-> "reject", ok |-> FALSE, body |-> NoBody]
Pending == [kind |-> "pending", ok |-> FALSE, body |-> NoBody]
Response(ok, body) == [kind |-> "response", ok |-> ok, body |-> body]

ObjectBody(status, answer, source, success, image_url, error) ==
  Body("object", status, answer, source, success, image_url, error)

HealthyBody ==
  ObjectBody(Healthy, Undefined, Undefined, "undefined", Undefined, Undefined)

DegradedBody ==
  ObjectBody(<<"degraded">>, Undefined, Undefined, "undefined", Undefined, Undefined)

EmptyObject == PlainBody("object")

AnswerBody ==
  ObjectBody(Undefined, <<"42">>, <<"gpt">>, "undefined", Undefined, Undefined)

ImageBody ==
  ObjectBody(Undefined, Undefined, <<"dalle">>, "true", <<"http://img/1.png">>, Undefined)

ImageFailureBody ==
  ObjectBody(Undefined, Undefined, Undefined, "false", Undefined, <<"bad prompt">>)

(* what the network can answer to each endpoint *)
HealthOutcomes ==
  {Rejected, Response(TRUE, HealthyBody), Response(FALSE, HealthyBody),
   Response(TRUE, DegradedBody), Response(TRUE, EmptyObject),
   Response(TRUE, PlainBody("text")), Response(TRUE, PlainBody("null"))}

AskOutcomes ==
  {Rejected, Response(FALSE, AnswerBody), Response(FALSE, PlainBody("text")),
   Response(TRUE, AnswerBody), Response(TRUE, EmptyObject),
   Response(TRUE, PlainBody("text")), Response(TRUE, PlainBody("null"))}

ImageOutcomes ==
  {Rejected, Response(FALSE, ImageBody), Response(FALSE, PlainBody("text")),
   Response(TRUE, ImageBody), Response(TRUE, ImageFailureBody),
   Response(TRUE, PlainBody("text")), Response(TRUE, PlainBody("null"))}

SpeechOutcomes ==
  {Rejected, Response(FALSE, PlainBody("text")),
   Response(TRUE, PlainBody("text")), Response(TRUE, PlainBody("broken"))}

(* response.json(): rejects unless the body is JSON *)
JsonParses(body) == body.kind \in {"null", "object"}

(* reading a property of the parsed value: throws a TypeError on null *)
FieldReadable(body) == body.kind = "object"

(* response.blob(): rejects only when the body cannot be read *)
BlobReads(body) == body.kind # "broken"

(* ------------------------------- state -------------------------------- *)
VARIABLES
  env,                \* process.env.NEXT_PUBLIC_BACKEND_URL
  messages,           \* useState<Message[]>([])
  input,              \* useState('')
  isLoading,          \* useState(false)
  backendOnline,      \* useState(false)
  connectionTesting,  \* useState(true)
  health,             \* position of testBackendConnection and its response
  calls,              \* accepted handler invocations and their positions
  requests,           \* every HTTP request handed to fetch, in order
  played,             \* calls whose audio.play() was started
  last                \* the event that made the last step

vars == <<env, messages, input, isLoading, backendOnline, connectionTesting,
          health, calls, requests, played, last>>

BackendUrl == IF Truthy(env) THEN env ELSE DefaultHost

Request(method, path, body) ==
  [base |-> BackendUrl, path |-> path, method |-> method, body |-> body]

(* the header reading the online flag alone *)
ConnectionStatus_noTesting == IF backendOnline THEN "online" ELSE "offline"

(* tri-state shown in the header *)
ConnectionStatus ==
  IF connectionTesting THEN "testing"
  ELSE IF backendOnline THEN "online" ELSE "offline"

(* the operation that made the last step, the call it belongs to (0 if   *)
(* none) and the network outcome it consumed (Pending if none)            *)
Event(op, call, resp) == [op |-> op, call |-> call, resp |-> resp]

InFlight(c) == c.pc \in {"fetch", "body"}

LogCall(c) == c.handler \in {"send", "image"}

Init ==
  /\ env \in {Undefined, EnvHost}
  /\ messages = <<>>
  /\ input = <<>>
  /\ isLoading = FALSE
  /\ backendOnline = FALSE
  /\ connectionTesting = TRUE
  /\ health = [pc |-> "fetch", resp |-> Pending]
  /\ calls = <<>>
  /\ requests = <<Request("GET", "/health", {})>>
  /\ played = {}
  /\ last = Event("mount", 0, Pending)

(* --------------------------- health probe ----------------------------- *)
(* any truthy status counts as healthy *)
HealthOnline_truthy(resp) ==
  /\ resp.kind = "response"
  /\ JsonParses(resp.body)
  /\ FieldReadable(resp.body)
  /\ Truthy(resp.body.status)

(* the value handed to setBackendOnline once the probe has an outcome *)
HealthOnline(resp) ==
  /\ resp.kind = "response"
  /\ JsonParses(resp.body)
  /\ FieldReadable(resp.body)
  /\ resp.body.status = Healthy

(* await fetch(`${backendUrl}/health`) settles *)
testBackendConnection_fetched ==
  /\ health.pc = "fetch"
  /\ \E r \in HealthOutcomes :
       /\ IF r.kind = "reject"
          THEN /\ health' = [pc |-> "done", resp |-> Pending]
               /\ backendOnline' = HealthOnline(r)
               /\ connectionTesting' = FALSE
          ELSE /\ health' = [pc |-> "json", resp |-> r]
               /\ UNCHANGED <<backendOnline, connectionTesting>>
       /\ last' = Event("testBackendConnection_fetched", 0, r)
  /\ UNCHANGED <<env, messages, input, isLoading, calls, requests, played>>

(* await response.json() settles *)
testBackendConnection_parsed ==
  /\ health.pc = "json"
  /\ health' = [pc |-> "done", resp |-> Pending]
  /\ backendOnline' = HealthOnline(health.resp)
  /\ connectionTesting' = FALSE
  /\ last' = Event("testBackendConnection_parsed", 0, health.resp)
  /\ UNCHANGED <<env, messages, input, isLoading, calls, requests, played>>

(* ------------------------------ drafting ------------------------------ *)
setInput ==
  /\ \E v \in Drafts : input' = v
  /\ last' = Event("setInput", 0, Pending)
  /\ UNCHANGED <<env, messages, isLoading, backendOnline, connectionTesting,
                 health, calls, requests, played>>

(* ------------------------------- calls -------------------------------- *)
(* a call keeps what its closure captured (the argument text and the log  *)
(* of the render it was invoked from) and whether another chat or image   *)
(* call was in flight at any moment of its own flight                     *)
Call(handler, arg) ==
  [handler |-> handler, pc |-> "fetch", arg |-> arg, resp |-> Pending,
   before |-> messages,
   overlapped |-> \E i \in 1..Len(calls) : LogCall(calls[i]) /\ InFlight(calls[i])]

(* calls after one more log-mutating call has been accepted *)
Overlap(cs) ==
  [i \in 1..Len(cs) |->
     IF LogCall(cs[i]) /\ InFlight(cs[i])
     THEN [cs[i] EXCEPT !.overlapped = TRUE] ELSE cs[i]]

(* call i moves on to pc; it holds its response only while it reads the body *)
Settle(i, pc, resp) ==
  [calls EXCEPT ![i].pc = pc, ![i].resp = IF pc = "body" THEN resp ELSE Pending]

(* ------------------------------ handleSend ---------------------------- *)
(* the guard without its online test *)
SendGuard_noOnline == Trim(input) # <<>>

(* the guard testing the draft without trimming it *)
SendGuard_noTrim == input # <<>> /\ backendOnline

SendGuard == Trim(input) # <<>> /\ backendOnline

(* the request body built after setInput(''), from the cleared draft *)
handleSend_postsCleared ==
  /\ SendGuard => Len(calls) < MaxCalls
  /\ IF SendGuard
     THEN /\ messages' = AppendMessage(messages, messages, UserMessage(input))
          /\ input' = <<>>
          /\ isLoading' = TRUE
          /\ requests' = Append(requests,
                Request("POST", "/ask", {<<"question", <<>>>>}))
          /\ calls' = Append(Overlap(calls), Call("send", input))
          /\ last' = Event("handleSend", Len(calls) + 1, Pending)
     ELSE /\ last' = Event("handleSend", 0, Pending)
          /\ UNCHANGED <<messages, input, isLoading, requests, calls>>
  /\ UNCHANGED <<env, backendOnline, connectionTesting, health, played>>

(* synchronous part, up to await fetch(`${backendUrl}/ask`) *)
handleSend ==
  /\ SendGuard => Len(calls) < MaxCalls
  /\ IF SendGuard
     THEN /\ messages' = AppendMessage(messages, messages, UserMessage(input))
          /\ input' = <<>>
          /\ isLoading' = TRUE
          /\ requests' = Append(requests,
                Request("POST", "/ask", {<<"question", input>>}))
          /\ calls' = Append(Overlap(calls), Call("send", input))
          /\ last' = Event("handleSend", Len(calls) + 1, Pending)
     ELSE /\ last' = Event("handleSend", 0, Pending)
          /\ UNCHANGED <<messages, input, isLoading, requests, calls>>
  /\ UNCHANGED <<env, backendOnline, connectionTesting, health, played>>

(* the status check left out, as in handleImageGeneration *)
SendResponseOk_noStatus(resp) == resp.kind = "response"

(* the fetch response lets the try block go on to response.json() *)
SendResponseOk(resp) == resp.kind = "response" /\ resp.ok

(* the parsed body lets the try block build the assistant message *)
(* a body without an answer field treated as a failure *)
SendBodyOk_needsAnswer(body) ==
  JsonParses(body) /\ FieldReadable(body) /\ body.answer # Undefined

SendBodyOk(body) == JsonParses(body) /\ FieldReadable(body)

(* the source field dropped, as in the earliest variant of the handler *)
AiMessage_noSource(body) == Message("assistant", body.answer, Undefined, Undefined)

AiMessage(body) == Message("assistant", body.answer, body.source, Undefined)

(* the catch block also marking the backend offline *)
handleSend_fetched_goesOffline ==
  /\ \E i \in 1..Len(calls) :
       /\ calls[i].handler = "send"
       /\ calls[i].pc = "fetch"
       /\ \E r \in AskOutcomes :
            /\ IF SendResponseOk(r)
               THEN /\ calls' = Settle(i, "body", r)
                    /\ UNCHANGED <<messages, isLoading, backendOnline>>
               ELSE /\ calls' = Settle(i, "caught", r)
                    /\ messages' = AppendMessage(messages, calls[i].before, ChatErrorMessage)
                    /\ isLoading' = FALSE
                    /\ backendOnline' = FALSE
            /\ last' = Event("handleSend_fetched", i, r)
  /\ UNCHANGED <<env, input, connectionTesting, health, requests, played>>

(* setIsLoading(false) as soon as the response has arrived *)
handleSend_fetched_clearsEarly ==
  /\ \E i \in 1..Len(calls) :
       /\ calls[i].handler = "send"
       /\ calls[i].pc = "fetch"
       /\ \E r \in AskOutcomes :
            /\ IF SendResponseOk(r)
               THEN /\ calls' = Settle(i, "body", r)
                    /\ UNCHANGED messages
               ELSE /\ calls' = Settle(i, "caught", r)
                    /\ messages' = AppendMessage(messages, calls[i].before, ChatErrorMessage)
            /\ isLoading' = FALSE
            /\ last' = Event("handleSend_fetched", i, r)
  /\ UNCHANGED <<env, input, backendOnline, connectionTesting, health,
                 requests, played>>

(* await fetch settles: a rejection or a non-2xx status runs catch/finally *)
handleSend_fetched ==
  /\ \E i \in 1..Len(calls) :
       /\ calls[i].handler = "send"
       /\ calls[i].pc = "fetch"
       /\ \E r \in AskOutcomes :
            /\ IF SendResponseOk(r)
               THEN /\ calls' = Settle(i, "body", r)
                    /\ UNCHANGED <<messages, isLoading>>
               ELSE /\ calls' = Settle(i, "caught", r)
                    /\ messages' = AppendMessage(messages, calls[i].before, ChatErrorMessage)
                    /\ isLoading' = FALSE
            /\ last' = Event("handleSend_fetched", i, r)
  /\ UNCHANGED <<env, input, backendOnline, connectionTesting, health,
                 requests, played>>

(* the completion also resetting the draft *)
handleSend_parsed_clearsDraft ==
  /\ \E i \in 1..Len(calls) :
       /\ calls[i].handler = "send"
       /\ calls[i].pc = "body"
       /\ IF SendBodyOk(calls[i].resp.body)
          THEN /\ calls' = Settle(i, "returned", Pending)
               /\ messages' = AppendMessage(messages, calls[i].before,
                                           AiMessage(calls[i].resp.body))
          ELSE /\ calls' = Settle(i, "caught", Pending)
               /\ messages' = AppendMessage(messages, calls[i].before, ChatErrorMessage)
       /\ isLoading' = FALSE
       /\ input' = <<>>
       /\ last' = Event("handleSend_parsed", i, calls[i].resp)
  /\ UNCHANGED <<env, backendOnline, connectionTesting, health,
                 requests, played>>

(* await response.json() settles *)
handleSend_parsed ==
  /\ \E i \in 1..Len(calls) :
       /\ calls[i].handler = "send"
       /\ calls[i].pc = "body"
       /\ IF SendBodyOk(calls[i].resp.body)
          THEN /\ calls' = Settle(i, "returned", Pending)
               /\ messages' = AppendMessage(messages, calls[i].before,
                                           AiMessage(calls[i].resp.body))
          ELSE /\ calls' = Settle(i, "caught", Pending)
               /\ messages' = AppendMessage(messages, calls[i].before, ChatErrorMessage)
       /\ isLoading' = FALSE
       /\ last' = Event("handleSend_parsed", i, calls[i].resp)
  /\ UNCHANGED <<env, input, backendOnline, connectionTesting, health,
                 requests, played>>

(* ------------------------- handleImageGeneration ---------------------- *)
(* the guard without its online test *)
ImageGuard_noOnline == Trim(input) # <<>>

ImageGuard == Trim(input) # <<>> /\ backendOnline

(* synchronous part, up to await fetch(`${backendUrl}/generate-image`) *)
handleImageGeneration ==
  /\ ImageGuard => Len(calls) < MaxCalls
  /\ IF ImageGuard
     THEN /\ messages' = AppendMessage(messages, messages,
                                      UserMessage(ImagePrefix \o input))
          /\ input' = <<>>
          /\ isLoading' = TRUE
          /\ requests' = Append(requests,
                Request("POST", "/generate-image",
                        {<<"prompt", input>>, <<"size", ImageSize>>}))
          /\ calls' = Append(Overlap(calls), Call("image", input))
          /\ last' = Event("handleImageGeneration", Len(calls) + 1, Pending)
     ELSE /\ last' = Event("handleImageGeneration", 0, Pending)
          /\ UNCHANGED <<messages, input, isLoading, requests, calls>>
  /\ UNCHANGED <<env, backendOnline, connectionTesting, health, played>>

(* the fetch response lets the try block go on to response.json() *)
ImageResponseOk(resp) == resp.kind = "response"

(* the success flag left unread *)
ImageBodyOk_noFlag(body) == JsonParses(body) /\ FieldReadable(body)

(* the parsed body takes the data.success branch *)
ImageBodyOk(body) ==
  JsonParses(body) /\ FieldReadable(body) /\ body.success = "true"

(* the returned URL not attached to the entry *)
ImageMessage_noUrl(body) ==
  Message("assistant", ImageCaption, body.source, Undefined)

ImageMessage(body) ==
  Message("assistant", ImageCaption, body.source, body.image_url)

(* a rejected fetch tried once more before giving up *)
handleImageGeneration_fetched_retries ==
  /\ \E i \in 1..Len(calls) :
       /\ calls[i].handler = "image"
       /\ calls[i].pc = "fetch"
       /\ \E r \in ImageOutcomes :
            /\ IF ImageResponseOk(r)
               THEN /\ calls' = Settle(i, "body", r)
                    /\ UNCHANGED <<messages, isLoading, requests>>
               ELSE IF Len(requests) <= Len(calls) + 1
               THEN /\ requests' = Append(requests, requests[i + 1])
                    /\ UNCHANGED <<messages, isLoading, calls>>
               ELSE /\ calls' = Settle(i, "caught", r)
                    /\ messages' = AppendMessage(messages, calls[i].before, ImageErrorMessage)
                    /\ isLoading' = FALSE
                    /\ UNCHANGED requests
            /\ last' = Event("handleImageGeneration_fetched", i, r)
  /\ UNCHANGED <<env, input, backendOnline, connectionTesting, health, played>>

(* await fetch settles: only a rejection runs catch/finally *)
handleImageGeneration_fetched ==
  /\ \E i \in 1..Len(calls) :
       /\ calls[i].handler = "image"
       /\ calls[i].pc = "fetch"
       /\ \E r \in ImageOutcomes :
            /\ IF ImageResponseOk(r)
               THEN /\ calls' = Settle(i, "body", r)
                    /\ UNCHANGED <<messages, isLoading>>
               ELSE /\ calls' = Settle(i, "caught", r)
                    /\ messages' = AppendMessage(messages, calls[i].before, ImageErrorMessage)
                    /\ isLoading' = FALSE
            /\ last' = Event("handleImageGeneration_fetched", i, r)
  /\ UNCHANGED <<env, input, backendOnline, connectionTesting, health,
                 requests, played>>

(* the body of a refused generation never finishing to be handled *)
handleImageGeneration_parsed_hangs ==
  /\ \E i \in 1..Len(calls) :
       /\ calls[i].handler = "image"
       /\ calls[i].pc = "body"
       /\ ImageBodyOk(calls[i].resp.body)
       /\ calls' = Settle(i, "returned", Pending)
       /\ messages' = AppendMessage(messages, calls[i].before,
                                   ImageMessage(calls[i].resp.body))
       /\ isLoading' = FALSE
       /\ last' = Event("handleImageGeneration_parsed", i, calls[i].resp)
  /\ UNCHANGED <<env, input, backendOnline, connectionTesting, health,
                 requests, played>>

(* await response.json() settles *)
handleImageGeneration_parsed ==
  /\ \E i \in 1..Len(calls) :
       /\ calls[i].handler = "image"
       /\ calls[i].pc = "body"
       /\ IF ImageBodyOk(calls[i].resp.body)
          THEN /\ calls' = Settle(i, "returned", Pending)
               /\ messages' = AppendMessage(messages, calls[i].before,
                                           ImageMessage(calls[i].resp.body))
          ELSE /\ calls' = Settle(i, "caught", Pending)
               /\ messages' = AppendMessage(messages, calls[i].before, ImageErrorMessage)
       /\ isLoading' = FALSE
       /\ last' = Event("handleImageGeneration_parsed", i, calls[i].resp)
  /\ UNCHANGED <<env, input, backendOnline, connectionTesting, health,
                 requests, played>>

(* --------------------------- handleTextToSpeech ----------------------- *)
(* the handler without its online test *)
SpeechGuard_noOnline == TRUE

(* the handler refusing to start while another speech request is pending *)
SpeechGuard_serialised ==
  /\ backendOnline
  /\ \A i \in 1..Len(calls) : calls[i].handler = "tts" => ~InFlight(calls[i])

(* if (!backendOnline) return *)
SpeechGuard == backendOnline

(* the contents of the messages that the log renders with a listen button *)
ListenTexts ==
  {messages[k].content : k \in {j \in 1..Len(messages) :
      /\ messages[j].role = "assistant"
      /\ Truthy(messages[j].source)
      /\ ~Truthy(messages[j].imageUrl)}}

(* the texts a caller can pass: a fixed text, or a listenable content *)
SpeechTexts == {<<"hello">>} \cup ListenTexts

(* synchronous part, up to await fetch(`${backendUrl}/text-to-speech`) *)
handleTextToSpeech(text) ==
  /\ SpeechGuard => Len(calls) < MaxCalls
  /\ IF SpeechGuard
     THEN /\ requests' = Append(requests,
                Request("POST", "/text-to-speech",
                        {<<"text", text>>, <<"voice_id", VoiceId>>}))
          /\ calls' = Append(calls, Call("tts", text))
          /\ last' = Event("handleTextToSpeech", Len(calls) + 1, Pending)
     ELSE /\ last' = Event("handleTextToSpeech", 0, Pending)
          /\ UNCHANGED <<requests, calls>>
  /\ UNCHANGED <<env, messages, input, isLoading, backendOnline,
                 connectionTesting, health, played>>

(* the response.ok test left out *)
SpeechResponseOk_noStatus(resp) == resp.kind = "response"

(* the fetch response takes the response.ok branch *)
SpeechResponseOk(resp) == resp.kind = "response" /\ resp.ok

(* a failed speech request reported in the log like a failed chat request *)
handleTextToSpeech_fetched_apologises ==
  /\ \E i \in 1..Len(calls) :
       /\ calls[i].handler = "tts"
       /\ calls[i].pc = "fetch"
       /\ \E r \in SpeechOutcomes :
            /\ calls' = Settle(i, IF SpeechResponseOk(r) THEN "body"
                                  ELSE IF r.kind = "reject" THEN "caught"
                                  ELSE "returned", r)
            /\ messages' = IF SpeechResponseOk(r) THEN messages
                           ELSE Append(messages, ChatErrorMessage)
            /\ last' = Event("handleTextToSpeech_fetched", i, r)
  /\ UNCHANGED <<env, input, isLoading, backendOnline,
                 connectionTesting, health, requests, played>>

(* await fetch settles *)
handleTextToSpeech_fetched ==
  /\ \E i \in 1..Len(calls) :
       /\ calls[i].handler = "tts"
       /\ calls[i].pc = "fetch"
       /\ \E r \in SpeechOutcomes :
            /\ calls' = Settle(i, IF SpeechResponseOk(r) THEN "body"
                                  ELSE IF r.kind = "reject" THEN "caught"
                                  ELSE "returned", r)
            /\ last' = Event("handleTextToSpeech_fetched", i, r)
  /\ UNCHANGED <<env, messages, input, isLoading, backendOnline,
                 connectionTesting, health, requests, played>>

(* await response.blob() settles; audio.play() follows in the same step *)
handleTextToSpeech_read ==
  /\ \E i \in 1..Len(calls) :
       /\ calls[i].handler = "tts"
       /\ calls[i].pc = "body"
       /\ IF BlobReads(calls[i].resp.body)
          THEN /\ calls' = Settle(i, "returned", Pending)
               /\ played' = played \cup {i}
          ELSE /\ calls' = Settle(i, "caught", Pending)
               /\ UNCHANGED played
       /\ last' = Event("handleTextToSpeech_read", i, calls[i].resp)
  /\ UNCHANGED <<env, messages, input, isLoading, backendOnline,
                 connectionTesting, health, requests>>

(* ---------------------------- specification --------------------------- *)
Next ==
  \/ testBackendConnection_fetched
  \/ testBackendConnection_parsed
  \/ setInput
  \/ handleSend
  \/ handleSend_fetched
  \/ handleSend_parsed
  \/ handleImageGeneration
  \/ handleImageGeneration_fetched
  \/ handleImageGeneration_parsed
  \/ \E text \in SpeechTexts : handleTextToSpeech(text)
  \/ handleTextToSpeech_fetched
  \/ handleTextToSpeech_read

Spec == Init /\ [][Next]_vars

(* Every dispatched request eventually resolves or rejects, and a body    *)
(* that has arrived is eventually read: each continuation of an await is   *)
(* run once its promise has settled.                                       *)
RequestsSettle ==
  /\ WF_vars(testBackendConnection_fetched)
  /\ WF_vars(testBackendConnection_parsed)
  /\ WF_vars(handleSend_fetched)
  /\ WF_vars(handleSend_parsed)
  /\ WF_vars(handleImageGeneration_fetched)
  /\ WF_vars(handleImageGeneration_parsed)
  /\ WF_vars(handleTextToSpeech_fetched)
  /\ WF_vars(handleTextToSpeech_read)

(* ------------------- the page driven through its controls ------------- *)
(* The controls of the chat and image tabs. Switching tabs is always      *)
(* possible and changes none of the state above, so a control event       *)
(* stands for "show its tab, then use the control".                       *)

(* <input disabled={!backendOnline || isLoading}> of the chat tab *)
ChatInputDisabled == ~backendOnline \/ isLoading

(* the disabled attribute without the loading flag *)
SendButtonDisabled_noLoading == ~backendOnline \/ Trim(input) = <<>>

(* Send button: disabled={!backendOnline || isLoading || !input.trim()} *)
SendButtonDisabled == ~backendOnline \/ isLoading \/ Trim(input) = <<>>

(* <input disabled={!backendOnline}> of the image tab *)
ImageInputDisabled == ~backendOnline

(* Generate button: disabled={!backendOnline || isLoading || !input.trim()} *)
GenerateButtonDisabled == ~backendOnline \/ isLoading \/ Trim(input) = <<>>

(* an event on a disabled control reaches no handler *)
Blocked(control) ==
  /\ last' = Event(control, 0, Pending)
  /\ UNCHANGED <<env, messages, input, isLoading, backendOnline,
                 connectionTesting, health, calls, requests, played>>

(* onChange of the chat input *)
chatInput_onChange == ~ChatInputDisabled /\ setInput

(* onKeyPress of the chat input: e.key === 'Enter' && handleSend() *)
chatInput_onKeyPress ==
  IF ChatInputDisabled THEN Blocked("chatInput_onKeyPress") ELSE handleSend

(* onClick of the Send button *)
sendButton_onClick ==
  IF SendButtonDisabled THEN Blocked("sendButton_onClick") ELSE handleSend

(* onChange of the image input *)
imageInput_onChange == ~ImageInputDisabled /\ setInput

(* onClick of the Generate button *)
generateButton_onClick ==
  IF GenerateButtonDisabled THEN Blocked("generateButton_onClick")
  ELSE handleImageGeneration

(* onClick of a listen button, rendered only while online *)
listenButton_onClick ==
  /\ backendOnline
  /\ \E text \in ListenTexts : handleTextToSpeech(text)

NextUI ==
  \/ testBackendConnection_fetched
  \/ testBackendConnection_parsed
  \/ chatInput_onChange
  \/ chatInput_onKeyPress
  \/ sendButton_onClick
  \/ imageInput_onChange
  \/ generateButton_onClick
  \/ listenButton_onClick
  \/ handleSend_fetched
  \/ handleSend_parsed
  \/ handleImageGeneration_fetched
  \/ handleImageGeneration_parsed
  \/ handleTextToSpeech_fetched
  \/ handleTextToSpeech_read

SpecUI == Init /\ [][NextUI]_vars

(* the page under the assumption that its requests settle *)
SpecLive == Init /\ [][NextUI]_vars /\ RequestsSettle

(* ---------------- the earlier page, src/frontend/app/page.tsx ---------- *)
(* The same component before the health probe was added: no online flag,  *)
(* a local default host, and controls that the loading flag disables only *)
(* in part. It is driven through its controls.                            *)
LocalHost == <<"http://localhost:8000">>
PageChatApology == <<"Sorry, I encountered an error. Please check if the backend is running and try again.">>

PageChatErrorMessage == Message("assistant", PageChatApology, Undefined, Undefined)

PageBackendUrl == IF Truthy(env) THEN env ELSE LocalHost

PageRequest(method, path, body) ==
  [base |-> PageBackendUrl, path |-> path, method |-> method, body |-> body]

(* useState initial values; the page has no probe and no online flag *)
InitPage ==
  /\ env \in {Undefined, EnvHost}
  /\ messages = <<>>
  /\ input = <<>>
  /\ isLoading = FALSE
  /\ backendOnline = FALSE
  /\ connectionTesting = FALSE
  /\ health = [pc |-> "done", resp |-> Pending]
  /\ calls = <<>>
  /\ requests = <<>>
  /\ played = {}
  /\ last = Event("mount", 0, Pending)

PageSendGuard == Trim(input) # <<>>

(* synchronous part of handleSend, up to await fetch(`${backendUrl}/ask`) *)
page_handleSend ==
  /\ PageSendGuard => Len(calls) < MaxCalls
  /\ IF PageSendGuard
     THEN /\ messages' = AppendMessage(messages, messages, UserMessage(input))
          /\ input' = <<>>
          /\ isLoading' = TRUE
          /\ requests' = Append(requests,
                PageRequest("POST", "/ask",
                            {<<"question", input>>, <<"stream", <<"false">>>>}))
          /\ calls' = Append(Overlap(calls), Call("send", input))
          /\ last' = Event("handleSend", Len(calls) + 1, Pending)
     ELSE /\ last' = Event("handleSend", 0, Pending)
          /\ UNCHANGED <<messages, input, isLoading, requests, calls>>
  /\ UNCHANGED <<env, backendOnline, connectionTesting, health, played>>

(* the fetch response lets the try block go on to response.json() *)
PageSendResponseOk(resp) == resp.kind = "response" /\ resp.ok

(* await fetch settles: a rejection or a non-2xx status runs catch/finally *)
page_handleSend_fetched ==
  /\ \E i \in 1..Len(calls) :
       /\ calls[i].handler = "send"
       /\ calls[i].pc = "fetch"
       /\ \E r \in AskOutcomes :
            /\ IF PageSendResponseOk(r)
               THEN /\ calls' = Settle(i, "body", r)
                    /\ UNCHANGED <<messages, isLoading>>
               ELSE /\ calls' = Settle(i, "caught", r)
                    /\ messages' = AppendMessage(messages, calls[i].before,
                                                 PageChatErrorMessage)
                    /\ isLoading' = FALSE
            /\ last' = Event("handleSend_fetched", i, r)
  /\ UNCHANGED <<env, input, backendOnline, connectionTesting, health,
                 requests, played>>

(* await response.json() settles *)
page_handleSend_parsed ==
  /\ \E i \in 1..Len(calls) :
       /\ calls[i].handler = "send"
       /\ calls[i].pc = "body"
       /\ IF SendBodyOk(calls[i].resp.body)
          THEN /\ calls' = Settle(i, "returned", Pending)
               /\ messages' = AppendMessage(messages, calls[i].before,
                                            AiMessage(calls[i].resp.body))
          ELSE /\ calls' = Settle(i, "caught", Pending)
               /\ messages' = AppendMessage(messages, calls[i].before,
                                            PageChatErrorMessage)
       /\ isLoading' = FALSE
       /\ last' = Event("handleSend_parsed", i, calls[i].resp)
  /\ UNCHANGED <<env, input, backendOnline, connectionTesting, health,
                 requests, played>>

PageImageGuard == Trim(input) # <<>>

(* synchronous part of handleImageGeneration *)
page_handleImageGeneration ==
  /\ PageImageGuard => Len(calls) < MaxCalls
  /\ IF PageImageGuard
     THEN /\ messages' = AppendMessage(messages, messages,
                                      UserMessage(ImagePrefix \o input))
          /\ input' = <<>>
          /\ isLoading' = TRUE
          /\ requests' = Append(requests,
                PageRequest("POST", "/generate-image",
                            {<<"prompt", input>>, <<"size", ImageSize>>}))
          /\ calls' = Append(Overlap(calls), Call("image", input))
          /\ last' = Event("handleImageGeneration", Len(calls) + 1, Pending)
     ELSE /\ last' = Event("handleImageGeneration", 0, Pending)
          /\ UNCHANGED <<messages, input, isLoading, requests, calls>>
  /\ UNCHANGED <<env, backendOnline, connectionTesting, health, played>>

(* The awaits of handleImageGeneration (page.tsx:109-129) and of           *)
(* handleTextToSpeech (page.tsx:141-149) are the code of api.ts:155-176    *)
(* and api.ts:190-198: their steps are handleImageGeneration_fetched,      *)
(* handleImageGeneration_parsed, handleTextToSpeech_fetched and            *)
(* handleTextToSpeech_read.                                                *)

(* synchronous part of handleTextToSpeech: no guard at all *)
page_handleTextToSpeech(text) ==
  /\ Len(calls) < MaxCalls
  /\ requests' = Append(requests,
        PageRequest("POST", "/text-to-speech",
                    {<<"text", text>>, <<"voice_id", VoiceId>>}))
  /\ calls' = Append(calls, Call("tts", text))
  /\ last' = Event("handleTextToSpeech", Len(calls) + 1, Pending)
  /\ UNCHANGED <<env, messages, input, isLoading, backendOnline,
                 connectionTesting, health, played>>

(* onChange of the inputs of both tabs, which carry no disabled attribute *)
page_input_onChange ==
  /\ \E v \in Drafts : input' = v
  /\ last' = Event("setInput", 0, Pending)
  /\ UNCHANGED <<env, messages, isLoading, backendOnline, connectionTesting,
                 health, calls, requests, played>>

(* onKeyPress of the chat input: e.key === 'Enter' && handleSend() *)
page_chatInput_onKeyPress ==
  \E key \in {"Enter"} : key = "Enter" /\ page_handleSend

(* Send button: disabled={isLoading} *)
PageSendButtonDisabled == isLoading

page_sendButton_onClick ==
  IF PageSendButtonDisabled THEN Blocked("sendButton_onClick")
  ELSE page_handleSend

(* Generate button: disabled={isLoading} *)
PageGenerateButtonDisabled == isLoading

page_generateButton_onClick ==
  IF PageGenerateButtonDisabled THEN Blocked("generateButton_onClick")
  ELSE page_handleImageGeneration

(* onClick of a listen button *)
page_listenButton_onClick ==
  \E text \in ListenTexts : page_handleTextToSpeech(text)

NextPage ==
  \/ page_input_onChange
  \/ page_chatInput_onKeyPress
  \/ page_sendButton_onClick
  \/ page_generateButton_onClick
  \/ page_listenButton_onClick
  \/ page_handleSend_fetched
  \/ page_handleSend_parsed
  \/ handleImageGeneration_fetched
  \/ handleImageGeneration_parsed
  \/ handleTextToSpeech_fetched
  \/ handleTextToSpeech_read

SpecPage == InitPage /\ [][NextPage]_vars

(* ---------------- the API client, src/frontend/lib/api.ts:2-27 -------- *)
(* Two exported functions over the module constant BACKEND_URL. A call is  *)
(* one invocation by an importing module; it ends "returned" with a value  *)
(* or "thrown" with an error.                                              *)
ClientError == <<"Failed to get response">>
FetchError == <<"TypeError: Failed to fetch">>
ParseError == <<"SyntaxError">>
NoError == <<>>

(* const BACKEND_URL = process.env.NEXT_PUBLIC_BACKEND_URL || "http://localhost:8000" *)
BACKEND_URL == IF Truthy(env) THEN env ELSE LocalHost

ClientRequest(path, question) ==
  [base |-> BACKEND_URL, path |-> path, method |-> "POST",
   body |-> {<<"question", question>>}]

ClientCall(handler, question) ==
  [handler |-> handler, pc |-> "fetch", arg |-> question, resp |-> Pending,
   value |-> NoBody, error |-> NoError]

InitClient ==
  /\ env \in {Undefined, EnvHost}
  /\ messages = <<>>
  /\ input = <<>>
  /\ isLoading = FALSE
  /\ backendOnline = FALSE
  /\ connectionTesting = FALSE
  /\ health = [pc |-> "done", resp |-> Pending]
  /\ calls = <<>>
  /\ requests = <<>>
  /\ played = {}
  /\ last = Event("load", 0, Pending)

(* the test of response.ok left out of askGenzAI *)
ClientResponseOk_noStatus(resp) == resp.kind = "response"

(* if (!response.ok) throw: the response passes when its status is 2xx *)
ClientResponseOk(resp) == resp.kind = "response" /\ resp.ok

(* response.json() returned from an async function: the caller gets the   *)
(* parsed value, or the parse error as a rejection                        *)
ReturnJson(i, resp) ==
  IF JsonParses(resp.body)
  THEN [calls EXCEPT ![i].pc = "returned", ![i].resp = Pending,
                     ![i].value = resp.body]
  ELSE [calls EXCEPT ![i].pc = "thrown", ![i].resp = Pending,
                     ![i].error = ParseError]

(* the call ends by throwing *)
Throw(i, error) ==
  [calls EXCEPT ![i].pc = "thrown", ![i].resp = Pending, ![i].error = error]

(* askGenzAI(question), up to await fetch(`${BACKEND_URL}/ask`) *)
askGenzAI(question) ==
  /\ Len(calls) < MaxCalls
  /\ calls' = Append(calls, ClientCall("ask", question))
  /\ requests' = Append(requests, ClientRequest("/ask", question))
  /\ last' = Event("askGenzAI", Len(calls) + 1, Pending)
  /\ UNCHANGED <<env, messages, input, isLoading, backendOnline,
                 connectionTesting, health, played>>

(* await fetch settles; a non-2xx status throws Error('Failed to get response') *)
askGenzAI_fetched ==
  /\ \E i \in 1..Len(calls) :
       /\ calls[i].handler = "ask"
       /\ calls[i].pc = "fetch"
       /\ \E r \in AskOutcomes :
            /\ calls' = IF r.kind = "reject" THEN Throw(i, FetchError)
                        ELSE IF ClientResponseOk(r) THEN Settle(i, "body", r)
                        ELSE Throw(i, ClientError)
            /\ last' = Event("askGenzAI_fetched", i, r)
  /\ UNCHANGED <<env, messages, input, isLoading, backendOnline,
                 connectionTesting, health, requests, played>>

(* return response.json() *)
askGenzAI_parsed ==
  /\ \E i \in 1..Len(calls) :
       /\ calls[i].handler = "ask"
       /\ calls[i].pc = "body"
       /\ calls' = ReturnJson(i, calls[i].resp)
       /\ last' = Event("askGenzAI_parsed", i, calls[i].resp)
  /\ UNCHANGED <<env, messages, input, isLoading, backendOnline,
                 connectionTesting, health, requests, played>>

(* askGenzAIFree(question), up to await fetch(`${BACKEND_URL}/ask/free`) *)
askGenzAIFree(question) ==
  /\ Len(calls) < MaxCalls
  /\ calls' = Append(calls, ClientCall("askFree", question))
  /\ requests' = Append(requests, ClientRequest("/ask/free", question))
  /\ last' = Event("askGenzAIFree", Len(calls) + 1, Pending)
  /\ UNCHANGED <<env, messages, input, isLoading, backendOnline,
                 connectionTesting, health, played>>

(* await fetch settles; the status is not looked at *)
askGenzAIFree_fetched ==
  /\ \E i \in 1..Len(calls) :
       /\ calls[i].handler = "askFree"
       /\ calls[i].pc = "fetch"
       /\ \E r \in AskOutcomes :
            /\ calls' = IF r.kind = "reject" THEN Throw(i, FetchError)
                        ELSE Settle(i, "body", r)
            /\ last' = Event("askGenzAIFree_fetched", i, r)
  /\ UNCHANGED <<env, messages, input, isLoading, backendOnline,
                 connectionTesting, health, requests, played>>

(* return response.json() *)
askGenzAIFree_parsed ==
  /\ \E i \in 1..Len(calls) :
       /\ calls[i].handler = "askFree"
       /\ calls[i].pc = "body"
       /\ calls' = ReturnJson(i, calls[i].resp)
       /\ last' = Event("askGenzAIFree_parsed", i, calls[i].resp)
  /\ UNCHANGED <<env, messages, input, isLoading, backendOnline,
                 connectionTesting, health, requests, played>>

NextClient ==
  \/ \E question \in Drafts : askGenzAI(question)
  \/ askGenzAI_fetched
  \/ askGenzAI_parsed
  \/ \E question \in Drafts : askGenzAIFree(question)
  \/ askGenzAIFree_fetched
  \/ askGenzAIFree_parsed

SpecClient == InitClient /\ [][NextClient]_vars

(* ---------------- the earliest page, src/unnamed/part_000 ------------- *)
(* Chat only: entries are {role, content}, the guard tests the draft       *)
(* alone, the URL is interpolated from the environment without a fallback  *)
(* and the status of the response is not read.                             *)
EarlyApology == <<"Sorry, I encountered an error. Please try again.">>

EarlyMessage(role, content) == [role |-> role, content |-> content]

(* `${v}`: an undefined value is printed as the text undefined *)
Interpolate(v) == IF v = Undefined THEN <<"undefined">> ELSE v

(* `${process.env.NEXT_PUBLIC_BACKEND_URL}/ask` *)
EarlyRequest(method, path, body) ==
  [base |-> Interpolate(env), path |-> path, method |-> method, body |-> body]

(* useState initial values *)
InitEarly ==
  /\ env \in {Undefined, EnvHost}
  /\ messages = <<>>
  /\ input = <<>>
  /\ isLoading = FALSE
  /\ backendOnline = FALSE
  /\ connectionTesting = FALSE
  /\ health = [pc |-> "done", resp |-> Pending]
  /\ calls = <<>>
  /\ requests = <<>>
  /\ played = {}
  /\ last = Event("mount", 0, Pending)

EarlySendGuard == Trim(input) # <<>>

(* synchronous part of handleSend, up to await fetch *)
early_handleSend ==
  /\ EarlySendGuard => Len(calls) < MaxCalls
  /\ IF EarlySendGuard
     THEN /\ messages' = AppendMessage(messages, messages, EarlyMessage("user", input))
          /\ input' = <<>>
          /\ isLoading' = TRUE
          /\ requests' = Append(requests,
                EarlyRequest("POST", "/ask", {<<"question", input>>}))
          /\ calls' = Append(Overlap(calls), Call("send", input))
          /\ last' = Event("handleSend", Len(calls) + 1, Pending)
     ELSE /\ last' = Event("handleSend", 0, Pending)
          /\ UNCHANGED <<messages, input, isLoading, requests, calls>>
  /\ UNCHANGED <<env, backendOnline, connectionTesting, health, played>>

(* await fetch settles: only a rejection runs catch/finally *)
early_handleSend_fetched ==
  /\ \E i \in 1..Len(calls) :
       /\ calls[i].handler = "send"
       /\ calls[i].pc = "fetch"
       /\ \E r \in AskOutcomes :
            /\ IF r.kind = "response"
               THEN /\ calls' = Settle(i, "body", r)
                    /\ UNCHANGED <<messages, isLoading>>
               ELSE /\ calls' = Settle(i, "caught", r)
                    /\ messages' = AppendMessage(messages, calls[i].before,
                                      EarlyMessage("assistant", EarlyApology))
                    /\ isLoading' = FALSE
            /\ last' = Event("handleSend_fetched", i, r)
  /\ UNCHANGED <<env, input, backendOnline, connectionTesting, health,
                 requests, played>>

(* await response.json() settles; data.answer is read *)
early_handleSend_parsed ==
  /\ \E i \in 1..Len(calls) :
       /\ calls[i].handler = "send"
       /\ calls[i].pc = "body"
       /\ IF JsonParses(calls[i].resp.body) /\ FieldReadable(calls[i].resp.body)
          THEN /\ calls' = Settle(i, "returned", Pending)
               /\ messages' = AppendMessage(messages, calls[i].before,
                                 EarlyMessage("assistant", calls[i].resp.body.answer))
          ELSE /\ calls' = Settle(i, "caught", Pending)
               /\ messages' = AppendMessage(messages, calls[i].before,
                                 EarlyMessage("assistant", EarlyApology))
       /\ isLoading' = FALSE
       /\ last' = Event("handleSend_parsed", i, calls[i].resp)
  /\ UNCHANGED <<env, input, backendOnline, connectionTesting, health,
                 requests, played>>

(* onChange of the input: setInput(e.target.value) *)
early_input_onChange ==
  /\ \E text \in Drafts : input' = text
  /\ last' = Event("setInput", 0, Pending)
  /\ UNCHANGED <<env, messages, isLoading, backendOnline, connectionTesting,
                 health, calls, requests, played>>

(* onKeyPress of the input: e.key === 'Enter' && handleSend() *)
early_input_onKeyPress ==
  \E key \in {"Enter"} : key = "Enter" /\ early_handleSend

(* Send button: disabled={isLoading} *)
EarlySendButtonDisabled == isLoading

early_sendButton_onClick ==
  IF EarlySendButtonDisabled THEN Blocked("sendButton_onClick")
  ELSE early_handleSend

NextEarly ==
  \/ early_input_onChange
  \/ early_input_onKeyPress
  \/ early_sendButton_onClick
  \/ early_handleSend_fetched
  \/ early_handleSend_parsed

SpecEarly == InitEarly /\ [][NextEarly]_vars

(* ============================== properties ============================ *)
(* call i is in flight before the step and has finished after it *)
Finishes(i) ==
  /\ i \in 1..Len(calls)
  /\ InFlight(calls[i])
  /\ ~InFlight(calls'[i])

(* the three classes of failed request, read off the network outcome *)
TransportFailure(r) == r.kind = "reject"
Non2xx(r) == r.kind = "response" /\ ~r.ok
BodyReadFailure(r) ==
  r.kind = "response" /\ r.ok /\ r.body.kind \in {"broken", "text", "null"}

GatedPaths == {"/ask", "/generate-image", "/text-to-speech"}

(* C1: a step that hands a request to /ask, /generate-image or            *)
(* /text-to-speech to fetch starts from a state whose online flag is true  *)
(* and whose probe is no longer pending; while the status is 'testing'     *)
(* the request log holds the /health request alone.                        *)
C1_NoRequestWhileOffline ==
  [][/\ \A k \in (Len(requests) + 1)..Len(requests') :
          requests'[k].path \in GatedPaths => backendOnline /\ ~connectionTesting
     /\ connectionTesting' => requests' = requests
     /\ ~backendOnline => requests' = requests]_vars

(* handleSend returned during the probe, with a sendable draft, and no    *)
(* request beyond /health exists                                           *)
C1_Witness ==
  /\ connectionTesting
  /\ last = Event("handleSend", 0, Pending)
  /\ Trim(input) # <<>>
  /\ Len(requests) = 1

(* C2: when the probe has just completed, the online flag is true iff the *)
(* /health body parsed as JSON and its status field equals "healthy";      *)
(* every other body, a parse failure and a network throw leave it false.   *)
C2_OnlineIffHealthy ==
  (health.pc = "done" /\ last.op \in {"testBackendConnection_fetched",
                                      "testBackendConnection_parsed"})
  => (backendOnline <=>
        /\ last.resp.kind = "response"
        /\ last.resp.body.kind \in {"null", "object"}
        /\ last.resp.body.status = <<"healthy">>)

(* the probe completed online on a healthy body *)
C2_Witness ==
  /\ health.pc = "done"
  /\ last.op = "testBackendConnection_parsed"
  /\ last.resp.body.status = <<"healthy">>
  /\ backendOnline

(* C3: after a send accepted with draft d, alone in flight, completes on  *)
(* a 2xx JSON body {answer: a, source: s}, the log is the log before the   *)
(* send followed by the user entry d and the assistant entry (a, s).       *)
C3_SendAppendsUserThenAnswer ==
  (/\ last.op = "handleSend_parsed"
   /\ last.resp.kind = "response" /\ last.resp.ok
   /\ last.resp.body.kind = "object"
   /\ ~calls[last.call].overlapped)
  => messages = calls[last.call].before \o
       << [role |-> "user", content |-> calls[last.call].arg,
           source |-> Undefined, imageUrl |-> Undefined],
          [role |-> "assistant", content |-> last.resp.body.answer,
           source |-> last.resp.body.source, imageUrl |-> Undefined] >>

(* a second send, alone in flight, has just been answered {"42", "gpt"}   *)
C3_Witness ==
  /\ last.op = "handleSend_parsed"
  /\ last.resp = Response(TRUE, AnswerBody)
  /\ ~calls[last.call].overlapped
  /\ calls[last.call].before # <<>>
  /\ messages[Len(messages)].content = <<"42">>
  /\ messages[Len(messages)].source = <<"gpt">>

(* C4: the step that finishes a chat send on a network failure, a non-2xx *)
(* status or an error while reading the body appends exactly one entry,    *)
(* the assistant entry with the fixed chat apology, and leaves the         *)
(* loading flag false.                                                     *)
C4_SendFailureApology ==
  [][\A i \in 1..Len(calls) :
       (/\ Finishes(i)
        /\ calls[i].handler = "send"
        /\ \/ TransportFailure(last'.resp)
           \/ Non2xx(last'.resp)
           \/ BodyReadFailure(last'.resp))
       => /\ messages' = Append(messages,
               [role |-> "assistant", content |-> ChatApology,
                source |-> Undefined, imageUrl |-> Undefined])
          /\ isLoading' = FALSE]_vars

(* a send has just failed on the network: apology last, loading off *)
C4_Witness ==
  /\ last.op = "handleSend_fetched"
  /\ last.resp = Rejected
  /\ messages[Len(messages)].content = ChatApology
  /\ messages[Len(messages) - 1].role = "user"
  /\ ~isLoading

(* C5: the step that finishes an image call on a body whose success field *)
(* is false appends the fixed image-failure apology, and the body's error  *)
(* string is the content of no log entry.                                  *)
C5_ImageFailureHidesError ==
  [][\A i \in 1..Len(calls) :
       (/\ Finishes(i)
        /\ calls[i].handler = "image"
        /\ last'.resp.kind = "response"
        /\ last'.resp.body.kind = "object"
        /\ last'.resp.body.success = "false")
       => /\ messages' = Append(messages,
               [role |-> "assistant", content |-> ImageApology,
                source |-> Undefined, imageUrl |-> Undefined])
          /\ \A k \in 1..Len(messages') :
               messages'[k].content # last'.resp.body.error]_vars

(* an image call has just been answered {success: false, error: e} *)
C5_Witness ==
  /\ last.op = "handleImageGeneration_parsed"
  /\ last.resp = Response(TRUE, ImageFailureBody)
  /\ messages[Len(messages)].content = ImageApology

(* the fixed apology entry of a feature *)
ApologyOf(handler) ==
  [role |-> "assistant",
   content |-> IF handler = "send" THEN ChatApology ELSE ImageApology,
   source |-> Undefined, imageUrl |-> Undefined]

(* application-level failure flag in a 2xx body (image generation only) *)
FailureFlag(handler, r) ==
  /\ handler = "image"
  /\ r.kind = "response" /\ r.ok
  /\ r.body.kind = "object" /\ r.body.success = "false"

(* C6: for the chat and the image feature, the step that finishes a call  *)
(* on a transport failure, on a non-2xx status (whatever the body) or on   *)
(* a failure flag in a 2xx body appends that feature's fixed apology.      *)
C6_EveryFailureClassApologises ==
  [][\A i \in 1..Len(calls) :
       (/\ Finishes(i)
        /\ calls[i].handler \in {"send", "image"}
        /\ \/ TransportFailure(last'.resp)
           \/ Non2xx(last'.resp)
           \/ FailureFlag(calls[i].handler, last'.resp))
       => messages' = Append(messages, ApologyOf(calls[i].handler))]_vars

(* C7: handleSend invoked on an empty or whitespace-only draft changes    *)
(* neither the log, the draft, the loading flag nor the online flag and    *)
(* issues no request, whether the online flag is true or false.            *)
C7_BlankSendIsNoOp ==
  [][(last'.op = "handleSend" /\ Trim(input) = <<>>)
     => /\ last'.call = 0
        /\ UNCHANGED <<messages, input, isLoading, backendOnline,
                       connectionTesting, requests, calls>>]_vars

(* handleSend has just returned on a whitespace-only draft while online *)
C7_Witness ==
  /\ last = Event("handleSend", 0, Pending)
  /\ input # <<>>
  /\ Trim(input) = <<>>
  /\ backendOnline

(* C8: handleSend and handleImageGeneration invoked while the online flag *)
(* is false, on a non-blank draft, append no entry, keep the draft, leave  *)
(* the loading flag alone and issue no request.                            *)
C8_OfflineIsNoOp ==
  [][(last'.op \in {"handleSend", "handleImageGeneration"} /\ ~backendOnline)
     => /\ last'.call = 0
        /\ UNCHANGED <<messages, input, isLoading, backendOnline,
                       connectionTesting, requests, calls>>]_vars

(* handleImageGeneration has just returned on a non-blank draft, the      *)
(* probe having resolved to offline                                        *)
C8_Witness ==
  /\ last = Event("handleImageGeneration", 0, Pending)
  /\ Trim(input) # <<>>
  /\ ~backendOnline
  /\ ~connectionTesting

(* C9: across every step the previous log is a prefix of the next log. *)
C9_LogAppendOnly ==
  [][/\ Len(messages) <= Len(messages')
     /\ \A k \in 1..Len(messages) : messages'[k] = messages[k]]_vars

(* two overlapping calls have both completed: four entries in the log *)
C9_Witness ==
  /\ Len(messages) = 4
  /\ \E i \in 1..Len(calls) : calls[i].overlapped /\ ~InFlight(calls[i])
  /\ \A i \in 1..Len(calls) : ~InFlight(calls[i])

(* C10: the connection status starts as 'testing'; the status and the     *)
(* online flag change only in the step that completes the probe, from      *)
(* 'testing' to 'online' or 'offline'; once the probe is done the status   *)
(* is never 'testing' again.                                               *)
C10_StatusSetOnce ==
  /\ ConnectionStatus = "testing" /\ ~backendOnline
  /\ [][(ConnectionStatus' # ConnectionStatus \/ backendOnline' # backendOnline)
        => /\ ConnectionStatus = "testing"
           /\ ConnectionStatus' \in {"online", "offline"}
           /\ health.pc # "done" /\ health'.pc = "done"]_vars
  /\ [](health.pc = "done" <=> ConnectionStatus # "testing")

(* online, and a chat request and a speech request have failed since *)
C10_Witness ==
  /\ ConnectionStatus = "online"
  /\ \E i \in 1..Len(calls) : calls[i].handler = "send" /\ calls[i].pc = "caught"
  /\ \E i \in 1..Len(calls) : calls[i].handler = "tts" /\ calls[i].pc = "caught"

(* the chat and image calls in flight *)
LogCallsInFlight == {i \in 1..Len(calls) : LogCall(calls[i]) /\ InFlight(calls[i])}

(* the events by which a send is issued: the handler itself, or a key     *)
(* press or click on the chat controls                                    *)
SendEvents == {"handleSend", "chatInput_onKeyPress", "sendButton_onClick"}

(* C11 as claimed: a send issued on a sendable draft while an earlier     *)
(* send is still in flight is accepted: it appends its user entry and      *)
(* dispatches its own /ask request, leaving two chat requests in flight.   *)
C11_SecondSendAccepted ==
  [][(/\ last'.op \in SendEvents
      /\ Trim(input) # <<>> /\ backendOnline
      /\ Len(calls) < MaxCalls
      /\ \E i \in LogCallsInFlight : calls[i].handler = "send")
     => /\ Len(calls') = Len(calls) + 1
        /\ messages' = Append(messages,
              [role |-> "user", content |-> input,
               source |-> Undefined, imageUrl |-> Undefined])
        /\ requests'[Len(requests')].path = "/ask"
        /\ Cardinality({i \in 1..Len(calls') :
              calls'[i].handler = "send" /\ InFlight(calls'[i])}) >= 2]_vars

(* C11 (amended): through the controls of the page in api.ts, whose chat  *)
(* input and Send and Generate buttons are disabled while the loading flag *)
(* is true, no /ask or /generate-image request is dispatched and no entry  *)
(* is appended by a new send while a chat or image request is in flight:   *)
(* at most one of them is in flight at a time, and the loading flag is     *)
(* true exactly while it is.                                               *)
C11_ControlsGuardWhileLoading ==
  /\ [](Cardinality(LogCallsInFlight) <= 1)
  /\ [](isLoading <=> LogCallsInFlight # {})
  /\ [][LogCallsInFlight # {}
        => /\ \A k \in (Len(requests) + 1)..Len(requests') :
                requests'[k].path = "/text-to-speech"
           /\ \A i \in (Len(calls) + 1)..Len(calls') : ~LogCall(calls'[i])]_vars

(* a click on Send, on a sendable draft typed in the image tab while a    *)
(* send is in flight, has just been dropped                                *)
C11_Witness ==
  /\ last = Event("sendButton_onClick", 0, Pending)
  /\ backendOnline
  /\ Trim(input) # <<>>
  /\ \E i \in LogCallsInFlight : calls[i].handler = "send"

(* C12: the step that finishes a chat or image call appends its assistant *)
(* entry at the end of the log as it stands then, whatever the order in    *)
(* which the calls in flight were dispatched, and touches no other call:   *)
(* the log orders answers by completion, not by dispatch.                  *)
C12_AnswersInCompletionOrder ==
  [][\A i \in 1..Len(calls) :
       (Finishes(i) /\ LogCall(calls[i]))
       => /\ Len(messages') = Len(messages) + 1
          /\ SubSeq(messages', 1, Len(messages)) = messages
          /\ messages'[Len(messages')].role = "assistant"
          /\ \A j \in 1..Len(calls) : j # i => calls'[j] = calls[j]]_vars

(* two overlapping sends: the second was answered "42" first, the first   *)
(* has just failed, and its apology stands after the answer of the second  *)
C12_Witness ==
  /\ Len(calls) = 2
  /\ calls[1].handler = "send" /\ calls[2].handler = "send"
  /\ calls[1].overlapped /\ calls[2].overlapped
  /\ calls[2].pc = "returned"
  /\ last = Event("handleSend_fetched", 1, Rejected)
  /\ Len(messages) = 4
  /\ messages[1].role = "user" /\ messages[2].role = "user"
  /\ messages[3].content = <<"42">>
  /\ messages[4].content = PageChatApology

(* a request that failed in any of the classes of failure *)
Failed(handler, r) ==
  \/ TransportFailure(r)
  \/ Non2xx(r)
  \/ BodyReadFailure(r)
  \/ FailureFlag(handler, r)

(* the chat and image calls that have been handled as failures *)
CaughtLogCalls == {i \in 1..Len(calls) : LogCall(calls[i]) /\ calls[i].pc = "caught"}

(* C13: the step that finishes a failed chat or image request leaves the  *)
(* loading flag false and the online flag as it was, that is true; and     *)
(* handleSend invoked afterwards on a non-blank draft is accepted and      *)
(* dispatches a new /ask request.                                          *)
C13_FailureIsNotFatal ==
  /\ [][\A i \in 1..Len(calls) :
          (/\ Finishes(i) /\ LogCall(calls[i])
           /\ Failed(calls[i].handler, last'.resp))
          => /\ isLoading' = FALSE
             /\ backendOnline' = backendOnline
             /\ backendOnline']_vars
  /\ [][(/\ last'.op = "handleSend"
         /\ Trim(input) # <<>>
         /\ CaughtLogCalls # {})
        => /\ last'.call = Len(calls) + 1
           /\ Len(requests') = Len(requests) + 1
           /\ requests'[Len(requests')].path = "/ask"
           /\ InFlight(calls'[Len(calls')])]_vars

(* a send has just been accepted after an earlier chat request failed *)
C13_Witness ==
  /\ last = Event("handleSend", 2, Pending)
  /\ calls[1].handler = "send" /\ calls[1].pc = "caught"
  /\ calls[2].pc = "fetch"
  /\ Len(requests) = 3
  /\ messages[2].content = ChatApology

(* the path each handler posts to *)
PathOf(handler) ==
  IF handler = "send" THEN "/ask"
  ELSE IF handler = "image" THEN "/generate-image"
  ELSE "/text-to-speech"

(* C14: the request log holds the one /health request followed by exactly *)
(* one request per accepted send, image generation or speech action, to    *)
(* that action's endpoint, whatever the outcome of the action: nothing is  *)
(* dispatched a second time.                                               *)
C14_OneRequestPerAction ==
  /\ Len(requests) = Len(calls) + 1
  /\ requests[1].path = "/health"
  /\ \A k \in 1..Len(calls) : requests[k + 1].path = PathOf(calls[k].handler)

(* two accepted actions have both ended in failure: three requests in all *)
C14_Witness ==
  /\ Len(calls) = 2
  /\ calls[1].pc = "caught" /\ calls[2].pc = "caught"
  /\ calls[1].handler = "image"
  /\ Len(requests) = 3

(* C15: the step that accepts a send or an image generation clears the    *)
(* draft, and the text it posts (question or prompt) is the draft of       *)
(* before the clear, the text of the user entry it appends (after the      *)
(* prefix 'Generate image: ' for an image).                                *)
C15_PostsDraftBeforeClear ==
  [][(/\ Len(calls') = Len(calls) + 1
      /\ LogCall(calls'[Len(calls')]))
     => /\ input' = <<>>
        /\ Len(messages') = Len(messages) + 1
        /\ Len(requests') = Len(requests) + 1
        /\ messages'[Len(messages')].role = "user"
        /\ IF calls'[Len(calls')].handler = "send"
           THEN /\ <<"question", input>> \in requests'[Len(requests')].body
                /\ messages'[Len(messages')].content = input
           ELSE /\ <<"prompt", input>> \in requests'[Len(requests')].body
                /\ messages'[Len(messages')].content
                     = <<"Generate image: ">> \o input]_vars

(* an image generation on the draft "a" has just been accepted *)
C15_Witness ==
  /\ last.op = "handleImageGeneration" /\ last.call > 0
  /\ input = <<>>
  /\ messages[Len(messages)].content = <<"Generate image: ", "a">>
  /\ <<"prompt", <<"a">>>> \in requests[Len(requests)].body

(* C16: the step that finishes an image call on a body whose success      *)
(* field is true appends exactly one entry, the assistant entry carrying   *)
(* the body's image_url and source, and no apology.                        *)
C16_ImageSuccessEntry ==
  [][\A i \in 1..Len(calls) :
       (/\ Finishes(i)
        /\ calls[i].handler = "image"
        /\ last'.resp.kind = "response"
        /\ last'.resp.body.kind = "object"
        /\ last'.resp.body.success = "true")
       => /\ messages' = Append(messages,
               [role |-> "assistant", content |-> ImageCaption,
                source |-> last'.resp.body.source,
                imageUrl |-> last'.resp.body.image_url])
          /\ messages'[Len(messages')].content # ImageApology]_vars

(* an image call has just been answered with a generated image *)
C16_Witness ==
  /\ last = Event("handleImageGeneration_parsed", last.call, Response(TRUE, ImageBody))
  /\ messages[Len(messages)].imageUrl = <<"http://img/1.png">>
  /\ messages[Len(messages)].source = <<"dalle">>

(* C17: handleTextToSpeech accepted while online posts {text, voice_id:   *)
(* "Rachel"} to /text-to-speech; the step that finishes the call starts    *)
(* playback iff the response is 2xx and no error was thrown (by fetch or   *)
(* while reading the body); a non-2xx response or a thrown error starts    *)
(* no playback, and the handler ends in its own catch or returns.          *)
C17_SpeechPlaysOn2xx ==
  /\ [][\A i \in (Len(calls) + 1)..Len(calls') :
          calls'[i].handler = "tts"
          => /\ backendOnline
             /\ requests'[Len(requests')].path = "/text-to-speech"
             /\ requests'[Len(requests')].method = "POST"
             /\ requests'[Len(requests')].body
                  = {<<"text", calls'[i].arg>>, <<"voice_id", <<"Rachel">>>>}]_vars
  /\ [][\A i \in 1..Len(calls) :
          (Finishes(i) /\ calls[i].handler = "tts")
          => /\ (i \in played') <=>
                  /\ last'.resp.kind = "response" /\ last'.resp.ok
                  /\ last'.resp.body.kind # "broken"
             /\ played' \subseteq played \cup {i}
             /\ calls'[i].pc \in {"returned", "caught"}]_vars
  /\ [](\A i \in played : calls[i].handler = "tts" /\ calls[i].pc = "returned")

(* one speech request was played, another was refused with a non-2xx *)
C17_Witness ==
  /\ Len(calls) = 2
  /\ played = {1}
  /\ calls[2].handler = "tts" /\ calls[2].pc = "returned"
  /\ last = Event("handleTextToSpeech_fetched", 2, Response(FALSE, PlainBody("text")))

(* C18: askGenzAI ends by throwing 'Failed to get response' on every      *)
(* non-2xx response to /ask, and on a 2xx response returns the parsed      *)
(* JSON body; askGenzAIFree returns the parsed JSON body of the /ask/free  *)
(* response whatever its status, 2xx or not. (A body that is not JSON has  *)
(* no parsed value: then either function ends with the parse error.)       *)
C18_ClientStatusHandling ==
  /\ [][\A i \in 1..Len(calls) :
          (Finishes(i) /\ last'.resp.kind = "response")
          => IF calls[i].handler = "ask" /\ ~last'.resp.ok
             THEN /\ calls'[i].pc = "thrown"
                  /\ calls'[i].error = <<"Failed to get response">>
                  /\ calls'[i].value = NoBody
             ELSE IF last'.resp.body.kind \in {"null", "object"}
             THEN /\ calls'[i].pc = "returned"
                  /\ calls'[i].value = last'.resp.body
                  /\ calls'[i].error = <<>>
             ELSE /\ calls'[i].pc = "thrown"
                  /\ calls'[i].error = <<"SyntaxError">>]_vars
  /\ [](\A i \in 1..Len(calls) :
          requests[i].path = IF calls[i].handler = "ask" THEN "/ask" ELSE "/ask/free")

(* the same non-2xx JSON answer: thrown by askGenzAI, returned by askGenzAIFree *)
C18_Witness ==
  /\ Len(calls) = 2
  /\ calls[1].handler = "ask" /\ calls[1].pc = "thrown"
  /\ calls[1].error = ClientError
  /\ calls[2].handler = "askFree" /\ calls[2].pc = "returned"
  /\ calls[2].value = AnswerBody
  /\ last = Event("askGenzAIFree_parsed", 2, Response(FALSE, AnswerBody))

(* the hardcoded default hosts of the source *)
DefaultHosts == {<<"https://genz-ai-backend4.onrender.com">>, <<"http://localhost:8000">>}

(* C19: every request dispatched is addressed to the environment's base   *)
(* URL when one is set and to a hardcoded default host when none is set;   *)
(* in particular never to a base printed from the unset value.             *)
C19_BaseIsEnvOrDefault ==
  \A k \in 1..Len(requests) :
    /\ requests[k].base \in (IF Truthy(env) THEN {env} ELSE DefaultHosts)
    /\ requests[k].base # <<"undefined">>

(* the chat sends accepted by the step *)
AcceptedSends == {i \in (Len(calls) + 1)..Len(calls') : calls'[i].handler = "send"}

(* C20: for each chat send accepted from the page's controls: the         *)
(* accepting step appends the user entry, clears the draft, sets the       *)
(* loading flag and dispatches POST /ask; while the send is in flight the  *)
(* flag stays set and the log ends with that user entry; the finishing     *)
(* step appends the assistant entry (answer or apology) right after it and *)
(* clears the flag, which was set until then.                              *)
C20_SendStepOrder ==
  /\ [][\A i \in AcceptedSends :
          /\ messages' = Append(messages, UserMessage(input))
          /\ input' = <<>>
          /\ isLoading' = TRUE
          /\ requests' = Append(requests, requests'[Len(requests')])
          /\ requests'[Len(requests')].method = "POST"
          /\ requests'[Len(requests')].path = "/ask"
          /\ calls'[i].pc = "fetch"]_vars
  /\ [](\A i \in 1..Len(calls) :
          (calls[i].handler = "send" /\ InFlight(calls[i]))
          => /\ isLoading
             /\ messages = Append(calls[i].before, UserMessage(calls[i].arg)))
  /\ [][\A i \in 1..Len(calls) :
          (Finishes(i) /\ calls[i].handler = "send")
          => /\ isLoading /\ ~isLoading'
             /\ Len(messages') = Len(messages) + 1
             /\ SubSeq(messages', 1, Len(messages)) = messages
             /\ messages'[Len(messages')].role = "assistant"
             /\ messages'[Len(messages') - 1] = UserMessage(calls[i].arg)]_vars

(* a send has been answered: user entry, then answer, and loading cleared *)
C20_Witness ==
  /\ last = Event("handleSend_parsed", 1, Response(TRUE, AnswerBody))
  /\ calls[1].pc = "returned"
  /\ messages = <<UserMessage(<<"a">>), AiMessage(AnswerBody)>>
  /\ ~isLoading

(* the fixed apologies of the three variants of the chat handler *)
ChatApologies ==
  {<<"I apologize, but I encountered an error. Please check your internet connection and try again. If the problem persists, the AI services might be temporarily unavailable.">>,
   <<"Sorry, I encountered an error. Please check if the backend is running and try again.">>,
   <<"Sorry, I encountered an error. Please try again.">>}

(* C21: in every variant of the chat handler, the step that finishes a    *)
(* send whose /ask response was non-2xx appends the variant's fixed        *)
(* apology, never an entry built from the response body.                   *)
C21_Non2xxApologisesEverywhere ==
  [][\A i \in 1..Len(calls) :
       (/\ Finishes(i)
        /\ calls[i].handler = "send"
        /\ Non2xx(last'.resp))
       => /\ Len(messages') = Len(messages) + 1
          /\ messages'[Len(messages')].role = "assistant"
          /\ messages'[Len(messages')].content \in ChatApologies]_vars

(* the entries of the log with the given role *)
EntriesOf(role) == {k \in 1..Len(messages) : messages[k].role = role}

(* C22: in every state the assistant entries of the log plus the chat and *)
(* image calls in flight are as many as the user entries, also while calls *)
(* overlap and complete in any order: a finished action has exactly one    *)
(* assistant entry.                                                        *)
C22_OneAssistantEntryPerAction ==
  /\ Cardinality(EntriesOf("assistant")) + Cardinality(LogCallsInFlight)
       = Cardinality(EntriesOf("user"))
  /\ Cardinality(EntriesOf("user"))
       = Cardinality({i \in 1..Len(calls) : LogCall(calls[i])})

(* two overlapping actions have both completed, the later one first *)
C22_Witness ==
  /\ Len(calls) = 2
  /\ calls[1].overlapped /\ calls[2].overlapped
  /\ calls[1].pc = "caught" /\ calls[2].pc = "returned"
  /\ last.call = 1
  /\ Len(messages) = 4
  /\ messages[3].content # ChatApology /\ messages[3].content # ImageApology
  /\ messages[4].content \in {ChatApology, ImageApology}

(* C23: the loading flag is true exactly in the states in which a chat or *)
(* image request is in flight; in particular the completion of one of two  *)
(* overlapping requests leaves it true while the other is pending.         *)
C23_LoadingIffInFlight ==
  isLoading <=> LogCallsInFlight # {}

(* C24: a non-empty log implies the online flag; once the health probe    *)
(* has resolved to offline the log is empty, the loading flag is false     *)
(* and the /health probe is the only request that was ever issued,         *)
(* whatever handlers are invoked afterwards.                               *)
C24_OfflineSessionIsInert ==
  /\ messages # <<>> => backendOnline
  /\ (health.pc = "done" /\ ~backendOnline)
       => /\ messages = <<>>
          /\ ~isLoading
          /\ calls = <<>>
          /\ Len(requests) = 1 /\ requests[1].path = "/health"

(* offline after the probe: a speech call on a typed draft was a no-op *)
C24_Witness ==
  /\ health.pc = "done" /\ ~backendOnline /\ ~connectionTesting
  /\ input = <<"a">>
  /\ last = Event("handleTextToSpeech", 0, Pending)
  /\ Len(requests) = 1

(* chat or image call i has been accepted and is in flight *)
Awaiting(i) == i \in 1..Len(calls) /\ LogCall(calls[i]) /\ InFlight(calls[i])

(* call i has just finished: its assistant entry closes the log and the   *)
(* loading flag is false                                                   *)
Answered(i) ==
  /\ i \in 1..Len(calls) /\ LogCall(calls[i]) /\ ~InFlight(calls[i])
  /\ last.call = i
  /\ messages # <<>> /\ messages[Len(messages)].role = "assistant"
  /\ ~isLoading

(* C25: when every dispatched request eventually resolves or rejects,     *)
(* every accepted send or image generation is eventually followed by a     *)
(* state in which its assistant entry has been appended and the loading    *)
(* flag is false. (Without the assumption nothing ends the wait: the       *)
(* handlers hold no timeout and no cancellation.)                          *)
C25_EveryActionIsAnswered ==
  \A i \in 1..MaxCalls : Awaiting(i) ~> Answered(i)

(* a send has been answered after its request resolved *)
C25_Witness ==
  /\ Answered(1)
  /\ last.op = "handleSend_parsed"
  /\ calls[1].pc = "returned"
  /\ Len(messages) = 2

(* the steps of handleTextToSpeech: its synchronous part and the two      *)
(* continuations of its awaits                                             *)
SpeechOps == {"handleTextToSpeech", "handleTextToSpeech_fetched", "handleTextToSpeech_read"}

(* C26: every step of handleTextToSpeech - the offline no-op, the         *)
(* dispatch, a 2xx or non-2xx response, a rejected fetch, a body read or   *)
(* failing to be read - leaves the log, the draft, the loading flag and    *)
(* the online flag unchanged.                                              *)
C26_SpeechFrame ==
  [][last'.op \in SpeechOps
     => /\ messages' = messages
        /\ input' = input
        /\ isLoading' = isLoading
        /\ backendOnline' = backendOnline]_vars

(* a speech request has failed beside a draft, a log and a pending send *)
C26_Witness ==
  /\ last.op = "handleTextToSpeech_fetched" /\ last.resp = Rejected
  /\ calls[last.call].pc = "caught"
  /\ Len(messages) = 1
  /\ isLoading
  /\ input = <<"a">>

(* C27: the step that finishes a chat or image call, with an answer or    *)
(* with an apology, changes the log and the loading flag only: the draft   *)
(* (also one typed during the flight), the online flag and the connection  *)
(* status are as before, and so are the requests and the playbacks.        *)
C27_CompletionFrame ==
  [][\A i \in 1..Len(calls) :
       (Finishes(i) /\ LogCall(calls[i]))
       => /\ input' = input
          /\ backendOnline' = backendOnline
          /\ connectionTesting' = connectionTesting
          /\ ConnectionStatus' = ConnectionStatus
          /\ requests' = requests
          /\ played' = played]_vars

(* a send has completed while a draft typed during its flight stands *)
C27_Witness ==
  /\ last.op = "handleSend_parsed"
  /\ ~InFlight(calls[last.call])
  /\ calls[last.call].arg = <<"a">>
  /\ input = <<" ">>
  /\ ConnectionStatus = "online"

(* C28: while online, handleTextToSpeech dispatches its request at once   *)
(* whatever else is in flight - an earlier speech request, a send - and    *)
(* every speech call whose response is 2xx and readable starts its own     *)
(* playback, leaving the playbacks of the others as they are.              *)
C28_SpeechNotSerialised ==
  /\ [][(last'.op = "handleTextToSpeech" /\ backendOnline)
        => /\ last'.call = Len(calls) + 1
           /\ Len(calls') = Len(calls) + 1
           /\ calls'[Len(calls')].handler = "tts"
           /\ calls'[Len(calls')].pc = "fetch"
           /\ Len(requests') = Len(requests) + 1
           /\ requests'[Len(requests')].path = "/text-to-speech"]_vars
  /\ [][\A i \in 1..Len(calls) :
          (/\ Finishes(i) /\ calls[i].handler = "tts"
           /\ last'.op = "handleTextToSpeech_read"
           /\ last'.resp.body.kind # "broken")
          => played' = played \cup {i}]_vars

(* a second speech request was dispatched while the first was in flight,  *)
(* and both have been played                                               *)
C28_Witness ==
  /\ Len(calls) = 2
  /\ calls[1].handler = "tts" /\ calls[2].handler = "tts"
  /\ Len(requests) = 3
  /\ played = {1, 2}
  /\ last.call = 1

(* C29: the step that finishes a send on a 2xx response whose JSON body   *)
(* is an object without an answer field appends the assistant entry built  *)
(* from the body, its content absent, and not the apology; a send ends in  *)
(* the apology only after a non-2xx status or a thrown error (a rejected   *)
(* fetch, a body that is not JSON, a null body whose answer is read).      *)
C29_MissingAnswerIsNoFailure ==
  [][\A i \in 1..Len(calls) :
       (Finishes(i) /\ calls[i].handler = "send")
       => /\ (/\ last'.resp.kind = "response" /\ last'.resp.ok
              /\ last'.resp.body.kind = "object"
              /\ last'.resp.body.answer = Undefined)
             => /\ messages' = Append(messages,
                     [role |-> "assistant", content |-> Undefined,
                      source |-> last'.resp.body.source, imageUrl |-> Undefined])
                /\ calls'[i].pc = "returned"
          /\ messages'[Len(messages')].content = ChatApology
             => \/ last'.resp.kind = "reject"
                \/ last'.resp.kind = "response" /\ ~last'.resp.ok
                \/ last'.resp.body.kind \notin {"object"}]_vars

(* a send was answered by a 2xx response with the empty object *)
C29_Witness ==
  /\ last = Event("handleSend_parsed", last.call, Response(TRUE, EmptyObject))
  /\ calls[last.call].pc = "returned"
  /\ messages[Len(messages)].role = "assistant"
  /\ messages[Len(messages)].content = Undefined
====
